---------------------------- MODULE Spec2Model ----------------------------
(***************************************************************************)
(* Dexo Activity: a personal activity log served over HTTP behind one      *)
(* shared secret.  Two variants of the server are modelled:                *)
(*   "pg"   src/index.js              (PostgreSQL table activity_logs)     *)
(*   "file" src/unnamed/part_000:235  (in-memory array + JSON file)        *)
(* A JavaScript string is a sequence of one-character strings; the value   *)
(* undefined is the one-element sequence Undefined, SQL NULL is Null.      *)
(* Request bodies and query parameters are strings or absent.              *)
(* proc is the server process (starting, listening or exited); inflight    *)
(* holds the POST calls that have arrived and their answers.               *)
(***************************************************************************)
EXTENDS Integers, Sequences, FiniteSets, TLC

VARIABLES variant, APP_TOKEN, activity_logs, id_seq, activities, DATA_FILE,
          now, last, proc, inflight

vars == <<variant, APP_TOKEN, activity_logs, id_seq, activities, DATA_FILE,
          now, last, proc, inflight>>

(***************************************************************************)
(* Bounds of the model.                                                    *)
(***************************************************************************)
MaxRecords == 2
MaxTicks == 1
MaxCalls == 2

(***************************************************************************)
(* JavaScript values and string helpers.                                   *)
(***************************************************************************)
Undefined == <<"undefined">>
Null == <<"null">>

\* String(undefined), as a template literal `${x}` renders it.
ToStr(x) ==
  IF x = Undefined THEN <<"u","n","d","e","f","i","n","e","d">> ELSE x

\* JavaScript truthiness of a string-or-undefined value.
Truthy(x) == x # Undefined /\ x # Null /\ x # <<>>

\* x || d
OrElse(x, d) == IF Truthy(x) THEN x ELSE d

RECURSIVE SplitFrom(_, _, _, _)
SplitFrom(s, c, i, cur) ==
  IF i > Len(s) THEN <<cur>>
  ELSE IF s[i] = c THEN <<cur>> \o SplitFrom(s, c, i + 1, <<>>)
  ELSE SplitFrom(s, c, i + 1, Append(cur, s[i]))

\* String.prototype.split(c) for a one-character separator.
Split(s, c) == SplitFrom(s, c, 1, <<>>)

RECURSIVE TrimLeft(_)
TrimLeft(s) ==
  IF s # <<>> /\ Head(s) = " " THEN TrimLeft(Tail(s)) ELSE s

RECURSIVE TrimRight(_)
TrimRight(s) ==
  IF s # <<>> /\ s[Len(s)] = " " THEN TrimRight(SubSeq(s, 1, Len(s) - 1)) ELSE s

\* String.prototype.trim()
Trim(s) == TrimRight(TrimLeft(s))

\* toLowerCase() of one character of the model's alphabet.
LowerChar(c) ==
  CASE c = "A" -> "a"
    [] c = "B" -> "b"
    [] c = "G" -> "g"
    [] OTHER -> c

ToLowerCase(s) == [i \in 1..Len(s) |-> LowerChar(s[i])]

\* String.prototype.includes(t): t occurs in s as a contiguous substring.
Includes(s, t) ==
  \E i \in 0..(Len(s) - Len(t)) : SubSeq(s, i + 1, i + Len(t)) = t

(***************************************************************************)
(* The cookie parser middleware.                                           *)
(***************************************************************************)
\* const [name, value] = cookie.trim().split('=')
CookiePair(piece) ==
  LET parts == Split(Trim(piece), "=")
  IN [name |-> parts[1],
      value |-> IF Len(parts) >= 2 THEN parts[2] ELSE Undefined]

RECURSIVE AssignCookies(_, _, _)
AssignCookies(pieces, i, cur) ==
  IF i > Len(pieces) THEN cur
  ELSE AssignCookies(pieces, i + 1,
         IF CookiePair(pieces[i]).name = <<"a","p","p","_","t","o","k","e","n">>
         THEN CookiePair(pieces[i]).value ELSE cur)

\* req.cookies.app_token after the middleware has run on the Cookie header.
CookieAppToken(cookieHeader) ==
  IF ~Truthy(cookieHeader) THEN Undefined
  ELSE AssignCookies(Split(cookieHeader, ";"), 1, Undefined)

(***************************************************************************)
(* Numbers and dates.  The clock counts hours since 1970-01-01T00:00Z.     *)
(***************************************************************************)
Digits == <<"0","1","2","3","4","5","6","7","8","9">>

IsDigit(c) == \E d \in 1..10 : Digits[d] = c

DigitVal(c) == (CHOOSE d \in 1..10 : Digits[d] = c) - 1

RECURSIVE DigitsPrefix(_, _, _)
\* The value of the longest run of decimal digits of s from position i on,
\* as <<value>>, or <<>> when there is no digit at i.
DigitsPrefix(s, i, acc) ==
  IF i <= Len(s) /\ IsDigit(s[i])
  THEN DigitsPrefix(s, i + 1, <<(IF acc = <<>> THEN 0 ELSE acc[1]) * 10 + DigitVal(s[i])>>)
  ELSE acc

\* parseInt(x): <<n>> for a number, <<>> for NaN.  Leading blanks are
\* skipped, one sign is read, then decimal digits up to the first other
\* character.
ParseInt(x) ==
  LET s == TrimLeft(ToStr(x))
      neg == s # <<>> /\ Head(s) = "-"
      body == IF s # <<>> /\ Head(s) \in {"-", "+"} THEN Tail(s) ELSE s
      mag == DigitsPrefix(body, 1, <<>>)
  IN IF mag = <<>> THEN <<>> ELSE <<IF neg THEN 0 - mag[1] ELSE mag[1]>>

\* parseInt(x) || d : NaN and 0 are falsy.
ParseIntOr(x, d) ==
  IF ParseInt(x) = <<>> \/ ParseInt(x) = <<0>> THEN d ELSE ParseInt(x)[1]

Min(a, b) == IF a <= b THEN a ELSE b
Max(a, b) == IF a >= b THEN a ELSE b

\* Math.min(parseInt(req.query.limit) || 50, 200)
MinLimit(x) == IF ParseIntOr(x, 50) <= 200 THEN ParseIntOr(x, 50) ELSE 200

QueryLimit(req) == MinLimit(req.limit)

\* parseInt(req.query.offset) || 0
QueryOffset(req) == ParseIntOr(req.offset, 0)

\* The calendar day (days since 1970-01-01) of instant t in UTC and in
\* America/Los_Angeles (standard time, eight hours behind UTC).
UtcDay(t) == t \div 24

LocalDay(t) == (t - 8) \div 24

\* YYYY-MM-DD of a day of January 1970.
DateStr(day) ==
  <<"1","9","7","0","-","0","1","-">> \o <<Digits[((day + 1) \div 10) + 1], Digits[((day + 1) % 10) + 1]>>

\* getDateStr(dateStr): new Date(dateStr).toISOString().split('T')[0]
getDateStr(created_at) == DateStr(UtcDay(created_at))

\* PostgreSQL's conversion of a text parameter to date: <<day>>, or <<>>
\* when the text is not a date (the statement then fails).
ParseDate(s) ==
  IF \E d \in 0..30 : DateStr(d) = s
  THEN <<CHOOSE d \in 0..30 : DateStr(d) = s>>
  ELSE <<>>

\* PostgreSQL's conversion of a text parameter to bigint.
ParseBigint(s) ==
  IF s # <<>> /\ \A i \in 1..Len(s) : IsDigit(s[i])
  THEN DigitsPrefix(s, 1, <<>>)
  ELSE <<>>

\* Array.prototype.slice(start, end)
Slice(arr, start, end) ==
  LET len == Len(arr)
      s == IF start < 0 THEN Max(len + start, 0) ELSE Min(start, len)
      e == IF end < 0 THEN Max(len + end, 0) ELSE Min(end, len)
  IN SubSeq(arr, s + 1, e)

\* Array.prototype.push(x): the element goes to the end.
Push(arr, x) == Append(arr, x)

\* Array.prototype.unshift(x)
Unshift(arr, x) == <<x>> \o arr

(***************************************************************************)
(* SQL helpers of the PostgreSQL variant.                                  *)
(***************************************************************************)
RECURSIVE LikeMatch(_, _)
\* text LIKE pattern: % matches any run of characters, _ any one character.
LikeMatch(text, pattern) ==
  IF pattern = <<>> THEN text = <<>>
  ELSE IF Head(pattern) = "%"
       THEN LikeMatch(text, Tail(pattern))
            \/ (text # <<>> /\ LikeMatch(Tail(text), pattern))
  ELSE IF text = <<>> THEN FALSE
  ELSE (Head(pattern) = "_" \/ Head(pattern) = Head(text))
       /\ LikeMatch(Tail(text), Tail(pattern))

\* text ILIKE pattern
ILike(text, pattern) == LikeMatch(ToLowerCase(text), ToLowerCase(pattern))

\* `%${search}%`
LikePattern(search) == <<"%">> \o search \o <<"%">>

\* ORDER BY created_at DESC: every arrangement of the rows that is
\* descending by created_at (PostgreSQL leaves the order of ties open).
OrderByCreatedAtDesc(rows) ==
  { [i \in 1..Len(rows) |-> rows[p[i]]] :
      p \in { q \in Permutations(1..Len(rows)) :
                \A i, j \in 1..Len(rows) :
                   i < j => rows[q[i]].created_at >= rows[q[j]].created_at } }

\* LIMIT n OFFSET m on an ordered result (n, m >= 0).
LimitOffset(rows, n, m) == SubSeq(rows, m + 1, Min(m + n, Len(rows)))

(***************************************************************************)
(* Requests and responses.                                                 *)
(***************************************************************************)
General == <<"g","e","n","e","r","a","l">>

AppTokenEq == <<"a","p","p","_","t","o","k","e","n","=">>

Bearer == <<"B","e","a","r","e","r"," ">>

\* The attributes the Set-Cookie header of GET /auth carries.
CookieAttrs == <<";"," ","P","a","t","h","=","/",";"," ","H","t","t","p","O","n","l","y",";"," ","S","a","m","e","S","i","t","e","=","S","t","r","i","c","t",";"," ","M","a","x","-","A","g","e","=","3","1","5","3","6","0","0","0">>

Req(route, cookie, authorization) ==
  [route |-> route, cookie |-> cookie, authorization |-> authorization,
   token |-> Undefined, content |-> Undefined, category |-> Undefined,
   details |-> Undefined, limit |-> Undefined, offset |-> Undefined,
   q |-> Undefined, date |-> Undefined, id |-> Undefined]

NoReq == Req("none", Undefined, Undefined)

\* A response: status, a tag for the fixed text or JSON error it carries,
\* the records it carries (JSON rows, or the cards of the page), the
\* Set-Cookie header, and the pieces of HTML the page interpolates.
Res(status, error, rows) ==
  [status |-> status, error |-> error, rows |-> rows, setCookie |-> Undefined,
   html |-> <<>>]

LockPage == Res(401, "lock page", <<>>)

\* A check that some app_token cookie is present, whatever its value.
CookieAuthAnyValue(req) == CookieAppToken(req.cookie) # Undefined

\* req.cookies.app_token === APP_TOKEN
CookieAuth(req) == CookieAppToken(req.cookie) = APP_TOKEN

\* authHeader === `Bearer ${APP_TOKEN}`
HeaderAuth(req) == req.authorization = Bearer \o ToStr(APP_TOKEN)

\* requireAuth lets the request through to the route's handler.
requireAuth(req) == CookieAuth(req)

\* A check of the cookie alone, as requireAuth makes it.
PostAuthCookieOnly(req) == CookieAuth(req)

\* The inline check of POST /api/activities.
PostAuth(req) == CookieAuth(req) \/ HeaderAuth(req)

(***************************************************************************)
(* Initial state: the process has started with an empty store.             *)
(***************************************************************************)
Secret == <<"k","9">>

\* The process after app.listen: it serves requests.
Listening == [phase |-> "listening", initFailed |-> FALSE, exitCode |-> 0]

Init ==
  /\ proc = Listening
  /\ inflight = <<>>
  /\ variant \in {"pg", "file"}
  /\ APP_TOKEN \in {Undefined, Secret}
  /\ activity_logs = <<>>
  /\ id_seq = 1
  /\ activities = <<>>
  /\ DATA_FILE = <<>>
  /\ now = 15
  /\ last = [req |-> NoReq, res |-> Res(0, "", <<>>), fault |-> FALSE]

\* Time passes, sixteen hours at a step, at most n times.
Tick(n) ==
  /\ now < 15 + 16 * n
  /\ now' = now + 16
  /\ UNCHANGED <<variant, APP_TOKEN, activity_logs, id_seq, activities,
                 DATA_FILE, last, proc, inflight>>

Respond(req, res, fault) == last' = [req |-> req, res |-> res, fault |-> fault]

(***************************************************************************)
(* GET /auth                                                               *)
(***************************************************************************)
\* token === APP_TOKEN
TokenMatches(token) == token = APP_TOKEN

AuthEndpoint(req) ==
  /\ req.route = "GET /auth"
  /\ IF TokenMatches(req.token)
     THEN Respond(req, [Res(302, "", <<>>) EXCEPT
                          !.setCookie = AppTokenEq \o ToStr(req.token) \o CookieAttrs],
                  FALSE)
     ELSE Respond(req, Res(401, "Invalid token", <<>>), FALSE)
  /\ UNCHANGED <<variant, APP_TOKEN, activity_logs, id_seq, activities,
                 DATA_FILE, now>>

(***************************************************************************)
(* POST /api/activities                                                    *)
(***************************************************************************)
\* A check for an absent content only, which lets the empty string through.
ContentUndefined(req) == req.content = Undefined

\* if (!content) return res.status(400)
ContentMissing(req) == ~Truthy(req.content)

\* The row PostgreSQL inserts for the request.
NewRow(req) ==
  [id |-> id_seq, content |-> req.content,
   category |-> OrElse(req.category, General),
   details |-> OrElse(req.details, Null), created_at |-> now]

\* The INSERT fails: the backend is unreachable, or category VARCHAR(50)
\* rejects the value.
InsertFails(req, fault) == fault \/ Len(NewRow(req).category) > 50

PostActivitiesPg(req) ==
  /\ req.route = "POST /api/activities"
  /\ IF ~PostAuth(req)
     THEN /\ Respond(req, Res(401, "Unauthorized", <<>>), FALSE)
          /\ UNCHANGED <<activity_logs, id_seq>>
     ELSE IF ContentMissing(req)
     THEN /\ Respond(req, Res(400, "Content required", <<>>), FALSE)
          /\ UNCHANGED <<activity_logs, id_seq>>
     ELSE \E fault \in BOOLEAN :
            IF InsertFails(req, fault)
            THEN /\ Respond(req, Res(500, "Database error", <<>>), fault)
                 /\ UNCHANGED <<activity_logs, id_seq>>
            ELSE /\ Len(activity_logs) < MaxRecords
                 /\ activity_logs' = Append(activity_logs, NewRow(req))
                 /\ id_seq' = id_seq + 1
                 /\ Respond(req, Res(200, "", <<NewRow(req)>>), FALSE)
  /\ UNCHANGED <<variant, APP_TOKEN, activities, DATA_FILE, now>>

\* The activity object the file variant builds: it reads content and
\* category from the body, and nothing else.
NewActivity(req) ==
  [id |-> now, content |-> req.content,
   category |-> OrElse(req.category, General),
   details |-> Undefined, created_at |-> now]

\* A save that writes the newest record alone.
saveNewestOnly(acts) == SubSeq(acts, 1, 1)

\* saveActivities(activities): the file's new content is the whole array.
saveActivities(acts) == acts

PostActivitiesFile(req) ==
  /\ req.route = "POST /api/activities"
  /\ IF ~PostAuth(req)
     THEN /\ Respond(req, Res(401, "Unauthorized", <<>>), FALSE)
          /\ UNCHANGED <<activities, DATA_FILE>>
     ELSE IF ContentMissing(req)
     THEN /\ Respond(req, Res(400, "Content required", <<>>), FALSE)
          /\ UNCHANGED <<activities, DATA_FILE>>
     ELSE /\ Len(activities) < MaxRecords
          /\ activities' = Unshift(activities, NewActivity(req))
          /\ \E fault \in BOOLEAN :
               IF fault
               THEN \* writeFileSync throws; the handler catches nothing
                    /\ DATA_FILE' = DATA_FILE
                    /\ Respond(req, Res(500, "Internal Server Error", <<>>), TRUE)
               ELSE /\ DATA_FILE' = saveActivities(activities')
                    /\ Respond(req, Res(200, "", <<NewActivity(req)>>), FALSE)
  /\ UNCHANGED <<variant, APP_TOKEN, activity_logs, id_seq, now>>

(***************************************************************************)
(* GET /api/activities/:id  (PostgreSQL variant only)                      *)
(***************************************************************************)
GetActivityById(req) ==
  /\ req.route = "GET /api/activities/:id"
  /\ IF ~requireAuth(req)
     THEN Respond(req, LockPage, FALSE)
     ELSE \E fault \in BOOLEAN :
            IF fault \/ ParseBigint(req.id) = <<>>
            THEN Respond(req, Res(500, "Database error", <<>>), fault)
            ELSE LET rows == SelectSeq(activity_logs,
                                       LAMBDA a : a.id = ParseBigint(req.id)[1])
                 IN IF rows = <<>>
                    THEN Respond(req, Res(404, "Not found", <<>>), FALSE)
                    ELSE Respond(req, Res(200, "", <<rows[1]>>), FALSE)
  /\ UNCHANGED <<variant, APP_TOKEN, activity_logs, id_seq, activities,
                 DATA_FILE, now>>

(***************************************************************************)
(* The filters of the list and of the page.                                *)
(***************************************************************************)
\* content ILIKE $n OR category ILIKE $n, with $n = `%${search}%`
SearchPg(a, search) ==
  \/ ILike(a.content, LikePattern(search))
  \/ ILike(a.category, LikePattern(search))

\* DATE(created_at AT TIME ZONE 'America/Los_Angeles') = $n
DatePg(a, date) == LocalDay(a.created_at) = ParseDate(date)[1]

\* PostgreSQL: the WHERE clause built from date and search.
WherePg(a, date, search) ==
  /\ Truthy(date) => DatePg(a, date)
  /\ Truthy(search) => SearchPg(a, search)

\* The parameters make the SELECT fail: a date that is no date, a negative
\* LIMIT or OFFSET.
SelectFails(date, limit, offset) ==
  \/ Truthy(date) /\ ParseDate(date) = <<>>
  \/ limit < 0
  \/ offset < 0

\* a.content.toLowerCase().includes(search) || a.category.toLowerCase().includes(search)
SearchFile(a, search) ==
  \/ Includes(ToLowerCase(a.content), ToLowerCase(search))
  \/ Includes(ToLowerCase(a.category), ToLowerCase(search))

\* getDateStr(a.created_at) === date
DateFile(a, date) == getDateStr(a.created_at) = date

\* File variant: the two filter() calls.
FilterFile(a, date, search) ==
  /\ Truthy(date) => DateFile(a, date)
  /\ Truthy(search) => SearchFile(a, search)

(***************************************************************************)
(* GET /api/activities                                                     *)
(***************************************************************************)
ListActivitiesPg(req) ==
  /\ req.route = "GET /api/activities"
  /\ LET limit == QueryLimit(req)
         offset == QueryOffset(req)
         search == OrElse(req.q, <<>>)
         date == OrElse(req.date, <<>>)
     IN IF ~requireAuth(req)
        THEN Respond(req, LockPage, FALSE)
        ELSE \E fault \in BOOLEAN :
          IF fault \/ SelectFails(date, limit, offset)
          THEN Respond(req, Res(500, "Database error", <<>>), fault)
          ELSE \E ordered \in OrderByCreatedAtDesc(
                   SelectSeq(activity_logs, LAMBDA a : WherePg(a, date, search))) :
                 Respond(req, Res(200, "", LimitOffset(ordered, limit, offset)), FALSE)
  /\ UNCHANGED <<variant, APP_TOKEN, activity_logs, id_seq, activities,
                 DATA_FILE, now>>

ListActivitiesFile(req) ==
  /\ req.route = "GET /api/activities"
  /\ LET limit == QueryLimit(req)
         offset == QueryOffset(req)
         search == OrElse(req.q, <<>>)
         date == OrElse(req.date, <<>>)
         filtered == SelectSeq(activities, LAMBDA a : FilterFile(a, date, search))
     IN IF ~requireAuth(req)
        THEN Respond(req, LockPage, FALSE)
        ELSE Respond(req, Res(200, "", Slice(filtered, offset, offset + limit)), FALSE)
  /\ UNCHANGED <<variant, APP_TOKEN, activity_logs, id_seq, activities,
                 DATA_FILE, now>>

(***************************************************************************)
(* The rendering helpers of the page.                                      *)
(***************************************************************************)
RECURSIVE ReplaceChar(_, _, _)
\* str.replace(/c/g, entity)
ReplaceChar(str, c, entity) ==
  IF str = <<>> THEN <<>>
  ELSE (IF Head(str) = c THEN entity ELSE <<Head(str)>>)
       \o ReplaceChar(Tail(str), c, entity)

\* String(str).replace(/&/g,'&amp;').replace(/</g,'&lt;')
\*            .replace(/>/g,'&gt;').replace(/"/g,'&quot;')
escapeHtml(str) ==
  ReplaceChar(
    ReplaceChar(
      ReplaceChar(
        ReplaceChar(ToStr(str), "&", <<"&","a","m","p",";">>),
        "<", <<"&","l","t",";">>),
      ">", <<"&","g","t",";">>),
    "\"", <<"&","q","u","o","t",";">>)

MarkOpen == <<"<","m","a","r","k",">">>

MarkClose == <<"<","/","m","a","r","k",">">>

RECURSIVE ReplaceMatches(_, _)
\* text.replace(regex, '<mark>$1</mark>') for the global, case-insensitive
\* regex of the literal search: matches are taken left to right and do not
\* overlap.
ReplaceMatches(text, search) ==
  IF Len(text) < Len(search) THEN text
  ELSE IF ToLowerCase(SubSeq(text, 1, Len(search))) = ToLowerCase(search)
       THEN MarkOpen \o SubSeq(text, 1, Len(search)) \o MarkClose
            \o ReplaceMatches(SubSeq(text, Len(search) + 1, Len(text)), search)
  ELSE <<Head(text)>> \o ReplaceMatches(Tail(text), search)

highlightSearch(text, search) ==
  IF ~Truthy(search) THEN text ELSE ReplaceMatches(text, search)

\* The pieces the page head interpolates: the value of the search box, the
\* hidden date input, and the "results for" line.
HeadHtml(search, selectedDate) ==
  <<escapeHtml(search)>>
  \o (IF Truthy(selectedDate) THEN <<escapeHtml(selectedDate)>> ELSE <<>>)
  \o (IF Truthy(search) THEN <<escapeHtml(search)>> ELSE <<>>)

\* The pieces one activity card interpolates (PostgreSQL variant).
CardPg(a, search) ==
  <<highlightSearch(escapeHtml(a.content), search), escapeHtml(a.category)>>
  \o (IF Truthy(a.details) THEN <<escapeHtml(a.details)>> ELSE <<>>)

\* The pieces one activity card interpolates (file variant).
CardFile(a, search) ==
  <<highlightSearch(escapeHtml(a.content), search), escapeHtml(a.category)>>

RECURSIVE CardsPg(_, _)
CardsPg(rows, search) ==
  IF rows = <<>> THEN <<>>
  ELSE CardPg(Head(rows), search) \o CardsPg(Tail(rows), search)

RECURSIVE CardsFile(_, _)
CardsFile(rows, search) ==
  IF rows = <<>> THEN <<>>
  ELSE CardFile(Head(rows), search) \o CardsFile(Tail(rows), search)

\* The page of the rows: res.send(`...`)
PagePg(rows, search, selectedDate) ==
  [Res(200, "", rows) EXCEPT
     !.html = HeadHtml(search, selectedDate) \o CardsPg(rows, search)]

PageFile(rows, search, selectedDate) ==
  [Res(200, "", rows) EXCEPT
     !.html = HeadHtml(search, selectedDate) \o CardsFile(rows, search)]

(***************************************************************************)
(* GET /  : the response carries the records whose cards the page shows.   *)
(***************************************************************************)
MainPagePg(req) ==
  /\ req.route = "GET /"
  /\ LET search == OrElse(req.q, <<>>)
         selectedDate == OrElse(req.date, <<>>)
     IN IF ~requireAuth(req)
        THEN Respond(req, LockPage, FALSE)
        ELSE \E fault \in BOOLEAN :
          IF fault \/ SelectFails(selectedDate, 100, 0)
          THEN Respond(req, Res(500, "Database error", <<>>), fault)
          ELSE \E ordered \in OrderByCreatedAtDesc(
                   SelectSeq(activity_logs, LAMBDA a : WherePg(a, selectedDate, search))) :
                 Respond(req, PagePg(LimitOffset(ordered, 100, 0), search,
                                     selectedDate), FALSE)
  /\ UNCHANGED <<variant, APP_TOKEN, activity_logs, id_seq, activities,
                 DATA_FILE, now>>

MainPageFile(req) ==
  /\ req.route = "GET /"
  /\ LET search == OrElse(req.q, <<>>)
         selectedDate == OrElse(req.date, <<>>)
         filtered == SelectSeq(activities, LAMBDA a : FilterFile(a, selectedDate, search))
     IN IF ~requireAuth(req)
        THEN Respond(req, LockPage, FALSE)
        ELSE Respond(req, PageFile(Slice(filtered, 0, 100), search,
                                   selectedDate), FALSE)
  /\ UNCHANGED <<variant, APP_TOKEN, activity_logs, id_seq, activities,
                 DATA_FILE, now>>

\* One of the requests reqs is served by the variant's handler of its route.
\* Only a listening process serves; serving leaves the process as it is.
Serving == proc.phase = "listening" /\ UNCHANGED <<proc, inflight>>

Serve(reqs) ==
  \/ Serving /\ \E req \in reqs : AuthEndpoint(req)
  \/ Serving /\ variant = "pg" /\ \E req \in reqs : PostActivitiesPg(req)
  \/ Serving /\ variant = "file" /\ \E req \in reqs : PostActivitiesFile(req)
  \/ Serving /\ variant = "pg" /\ \E req \in reqs : GetActivityById(req)
  \/ Serving /\ variant = "pg" /\ \E req \in reqs : ListActivitiesPg(req)
  \/ Serving /\ variant = "file" /\ \E req \in reqs : ListActivitiesFile(req)
  \/ Serving /\ variant = "pg" /\ \E req \in reqs : MainPagePg(req)
  \/ Serving /\ variant = "file" /\ \E req \in reqs : MainPageFile(req)

(***************************************************************************)
(* The requests of the credential specification Spec: every route under    *)
(* each combination of Cookie and Authorization headers.                   *)
(***************************************************************************)
GoodCookie == AppTokenEq \o Secret

AuthCookies ==
  { Undefined,
    GoodCookie,
    AppTokenEq \o <<"z">>,
    <<"x","=","1",";"," ">> \o GoodCookie }

AuthHeaders ==
  { Undefined, Bearer \o Secret, Bearer \o <<"z">>, Bearer \o ToStr(Undefined) }

AuthTokens == { Undefined, Secret, <<"z">>, ToStr(Undefined) }

ReadRoutes == { "GET /", "GET /api/activities", "GET /api/activities/:id" }

AuthRequests ==
  { [Req("GET /auth", Undefined, Undefined) EXCEPT !.token = t] : t \in AuthTokens }
  \cup
  { [Req(r, c, h) EXCEPT !.id = <<"1">>] :
      r \in ReadRoutes, c \in AuthCookies, h \in AuthHeaders }
  \cup
  { [Req("POST /api/activities", c, h) EXCEPT !.content = b] :
      c \in AuthCookies, h \in AuthHeaders, b \in {Undefined, <<"a">>} }

Next ==
  \/ Tick(MaxTicks)
  \/ Serve(AuthRequests)

Spec == Init /\ [][Next]_vars

(***************************************************************************)
(* The requests of SpecStore: POST bodies of every shape, sent with the    *)
(* cookie or with the Bearer header, and the reads that fetch them back.   *)
(***************************************************************************)
\* A category one character longer than VARCHAR(50) holds.
LongCategory == [i \in 1..51 |-> "w"]

WithCookie(route) == Req(route, GoodCookie, Undefined)

StoreBodies ==
  { [content |-> c, category |-> k[1], details |-> k[2]] :
      c \in {Undefined, <<>>, <<"A","b">>},
      k \in { <<Undefined, Undefined>>, <<<<"w">>, <<"d">>>>,
              <<LongCategory, Undefined>> } }

StoreRequests ==
  { [Req("POST /api/activities", cr[1], cr[2]) EXCEPT
       !.content = b.content, !.category = b.category, !.details = b.details] :
      cr \in { <<GoodCookie, Undefined>>, <<Undefined, Bearer \o Secret>> },
      b \in StoreBodies }
  \cup { WithCookie("GET /"), WithCookie("GET /api/activities") }
  \cup { [WithCookie("GET /api/activities/:id") EXCEPT !.id = i] :
           i \in { <<"1">>, <<"2">>, <<"x">> } }
  \cup { [Req("GET /auth", Undefined, Undefined) EXCEPT !.token = Secret] }

NextStore ==
  \/ Tick(MaxTicks)
  \/ Serve(StoreRequests)

SpecStore == Init /\ [][NextStore]_vars

(***************************************************************************)
(* The requests of SpecQuery: lists and pages under combinations of        *)
(* limit, offset, q and date, over records made at different instants.     *)
(***************************************************************************)
Day1 == <<"1","9","7","0","-","0","1","-","0","1">>

Day2 == <<"1","9","7","0","-","0","1","-","0","2">>

QueryBodies ==
  { [content |-> <<"A","b">>, category |-> Undefined, details |-> <<"d">>],
    [content |-> <<"c","_">>, category |-> <<"w">>, details |-> Undefined] }

ListReq(limit, offset, q, date) ==
  [WithCookie("GET /api/activities") EXCEPT
     !.limit = limit, !.offset = offset, !.q = q, !.date = date]

PageReq(q, date) == [WithCookie("GET /") EXCEPT !.q = q, !.date = date]

QueryRequests ==
  { [WithCookie("POST /api/activities") EXCEPT
       !.content = b.content, !.category = b.category, !.details = b.details] :
      b \in QueryBodies }
  \cup
  { ListReq(l, Undefined, Undefined, Undefined) :
      l \in { Undefined, <<"1">>, <<"-","1">>, <<"0">>, <<"x">>,
              <<"1","0","0","0","0">> } }
  \cup
  { ListReq(l, <<"1">>, Undefined, Undefined) :
      l \in { Undefined, <<"1">>, <<"-","1">> } }
  \cup
  { ListReq(Undefined, <<"-","1">>, Undefined, Undefined) }
  \cup
  { ListReq(Undefined, Undefined, Undefined, d) : d \in { Day1, Day2, <<"x">> } }
  \cup
  { ListReq(Undefined, Undefined, q, Undefined) : q \in { <<"a","B">>, <<"_">> } }
  \cup
  { ListReq(Undefined, Undefined, <<"_">>, Day2),
    ListReq(Undefined, Undefined, <<"a","B">>, <<"x">>) }
  \cup
  { ListReq(Undefined, Undefined, q, Undefined) :
      q \in { <<"G">>, <<"d">>, <<"%">> } }
  \cup
  { ListReq(l, <<"1">>, <<"a","B">>, Day1) : l \in { <<"1">>, <<"-","1">> } }
  \cup
  { PageReq(Undefined, Undefined), PageReq(<<"_">>, Undefined),
    PageReq(Undefined, Day2), PageReq(<<"_">>, <<"x">>) }
  \cup
  { [WithCookie("GET /api/activities/:id") EXCEPT !.id = <<"1">>],
    [Req("GET /auth", Undefined, Undefined) EXCEPT !.token = Secret] }

NextQuery ==
  \/ Tick(MaxTicks)
  \/ Serve(QueryRequests)

SpecQuery == Init /\ [][NextQuery]_vars

(***************************************************************************)
(* Properties of the auth gate, checked under Spec.                        *)
(***************************************************************************)
GuardedRoutes == ReadRoutes \cup {"POST /api/activities"}

Configured == APP_TOKEN # Undefined

\* Request req carries the secret in its app_token cookie.
HasCookie(req) == Configured /\ CookieAppToken(req.cookie) = APP_TOKEN

\* Request req carries "Bearer <secret>".
HasBearer(req) == Configured /\ req.authorization = Bearer \o APP_TOKEN

CarriesCookie == HasCookie(last.req)

CarriesBearer == HasBearer(last.req)

RecordSet == <<activity_logs, id_seq, activities, DATA_FILE>>

\* C1 as stated: on every guarded route a request that carries the secret
\* in its app_token cookie or in a Bearer header is authorized (it is not
\* answered 401); either credential alone suffices on each route.
C1_EitherCredentialOnEveryRoute ==
  (last.req.route \in GuardedRoutes /\ (CarriesCookie \/ CarriesBearer))
    => last.res.status # 401

\* C1, amended: the cookie suffices on every guarded route and the Bearer
\* header suffices on POST /api/activities; on the three GET routes behind
\* requireAuth a Bearer header without the cookie is answered 401.
C1_CookieEverywhereBearerOnPost ==
  /\ (last.req.route \in GuardedRoutes /\ CarriesCookie) => last.res.status # 401
  /\ (last.req.route = "POST /api/activities" /\ CarriesBearer)
       => last.res.status # 401
  /\ (last.req.route \in ReadRoutes /\ CarriesBearer /\ ~CarriesCookie)
       => (last.res.status = 401 /\ last.res.error = "lock page")

C1_Witness ==
  /\ last.req.route = "POST /api/activities"
  /\ CarriesBearer
  /\ last.req.cookie = Undefined
  /\ last.res.status = 200

\* C2: with a secret configured, a request to a guarded route whose
\* app_token cookie is not the secret and whose Authorization header is not
\* "Bearer <secret>" is answered 401 (the lock page, or the JSON error on
\* POST), receives no record, and leaves the record set as it was.
C2_NoCredentialNoAccess ==
  [][ (Configured /\ last'.req.route \in GuardedRoutes
         /\ ~HasCookie(last'.req) /\ ~HasBearer(last'.req))
      => /\ last'.res.status = 401
         /\ last'.res.rows = <<>>
         /\ last'.res.error = (IF last'.req.route = "POST /api/activities"
                               THEN "Unauthorized" ELSE "lock page")
         /\ UNCHANGED RecordSet ]_vars

C2_Witness ==
  /\ Configured
  /\ last.req.route = "POST /api/activities"
  /\ Truthy(last.req.content)
  /\ last.req.cookie # Undefined
  /\ ~CarriesCookie /\ ~CarriesBearer
  /\ last.res.status = 401
  /\ Len(activity_logs) + Len(activities) > 0

\* C3 as stated: without APP_TOKEN no request is authorized on a guarded
\* route and GET /auth never issues the cookie.
C3_NoSecretNoAuth ==
  ~Configured =>
    /\ last.req.route \in GuardedRoutes => last.res.status = 401
    /\ last.req.route = "GET /auth" => last.res.setCookie = Undefined

\* C4 as stated: GET /auth sets the cookie (with its attributes) and
\* redirects exactly when the token equals the configured secret; any other
\* token, and an absent one, gets 401 and no cookie.
C4_ExchangeExactlyOnSecret ==
  last.req.route = "GET /auth" =>
    IF Configured /\ last.req.token = APP_TOKEN
    THEN /\ last.res.status = 302
         /\ last.res.setCookie = AppTokenEq \o APP_TOKEN \o CookieAttrs
    ELSE /\ last.res.status = 401
         /\ last.res.setCookie = Undefined

(***************************************************************************)
(* Properties of create and read back, checked under SpecStore.            *)
(***************************************************************************)
\* The records the variant holds, in memory and as persisted.
Stored ==
  IF variant = "pg" THEN {activity_logs[i] : i \in 1..Len(activity_logs)}
  ELSE {activities[i] : i \in 1..Len(activities)}
       \cup {DATA_FILE[i] : i \in 1..Len(DATA_FILE)}

EmptyContent(req) == req.content = Undefined \/ req.content = <<>>

\* C5: an authorized POST whose content is empty or absent is answered 400
\* and leaves the record set as it was; every stored record has non-empty
\* content.
C5_EmptyContentRejected ==
  [][ /\ (last'.req.route = "POST /api/activities" /\ PostAuth(last'.req)
            /\ EmptyContent(last'.req))
         => (last'.res.status = 400 /\ last'.res.error = "Content required"
             /\ UNCHANGED RecordSet)
      /\ \A a \in Stored' : a.content # Undefined /\ a.content # <<>> ]_vars

C5_Witness ==
  /\ last.req.route = "POST /api/activities"
  /\ CarriesCookie
  /\ last.req.content = <<>>
  /\ last.res.status = 400
  /\ Stored # {}

\* The category and details a record made from request req is to show.
ExpectedCategory(req) == IF Truthy(req.category) THEN req.category ELSE General

DetailsAsSupplied(req, a) ==
  IF Truthy(req.details) THEN a.details = req.details
  ELSE a.details \in {Undefined, Null}

\* C6 as stated: an authorized POST with non-empty content succeeds (the
\* backend being up), and the record with the id it returned, fetched from
\* the store, has the content, the category ("general" when omitted) and
\* the details that were supplied.
C6_RoundTrip ==
  (last.req.route = "POST /api/activities" /\ (CarriesCookie \/ CarriesBearer)
     /\ Truthy(last.req.content) /\ ~last.fault)
  => /\ last.res.status = 200
     /\ \E a \in Stored :
          /\ a.id = last.res.rows[1].id
          /\ a.content = last.req.content
          /\ a.category = ExpectedCategory(last.req)
          /\ DetailsAsSupplied(last.req, a)

(***************************************************************************)
(* Properties of the list and its filters, checked under SpecQuery.        *)
(***************************************************************************)
ListOrPage == last.req.route \in {"GET /", "GET /api/activities"}

Descending(rows) ==
  \A i, j \in 1..Len(rows) : i < j => rows[i].created_at >= rows[j].created_at

\* C7: whatever search, date, limit and offset are, the records a list or
\* a page returns are in descending order of created_at.
C7_ListedNewestFirst ==
  (ListOrPage /\ last.res.status = 200) => Descending(last.res.rows)

C7_Witness ==
  /\ variant = "file"
  /\ last.req.route = "GET /api/activities"
  /\ Truthy(last.req.q)
  /\ Len(last.res.rows) = 2
  /\ last.res.rows[1].created_at > last.res.rows[2].created_at

\* An authorized list request whose backend was up.
ListServed ==
  /\ last.req.route = "GET /api/activities"
  /\ CarriesCookie
  /\ ~last.fault

\* C8 as stated: the effective limit lies in 1..200 whatever was asked for
\* (50 when nothing was), the response never holds more than 200 records,
\* and the request does not fail because of the limit.
C8_LimitClamped ==
  (ListServed /\ QueryOffset(last.req) >= 0 /\ ~Truthy(last.req.date))
  => /\ QueryLimit(last.req) \in 1..200
     /\ last.req.limit = Undefined => QueryLimit(last.req) = 50
     /\ last.res.status = 200
     /\ Len(last.res.rows) <= 200

\* s occurs in the content or the category of a, letter case aside.
LiteralMatch(a, s) ==
  \/ Includes(ToLowerCase(a.content), ToLowerCase(s))
  \/ Includes(ToLowerCase(a.category), ToLowerCase(s))

RowSet(rows) == {rows[i] : i \in 1..Len(rows)}

Unpaged(req) == req.limit = Undefined /\ req.offset = Undefined

\* C9 as stated: a non-empty search term selects exactly the records whose
\* content or category contains it as a literal substring, letter case
\* aside; an empty term selects every record.
C9_LiteralSubstringSearch ==
  (ListServed /\ last.res.status = 200 /\ Unpaged(last.req)
     /\ ~Truthy(last.req.date))
  => RowSet(last.res.rows) =
       IF Truthy(last.req.q)
       THEN {a \in Stored : LiteralMatch(a, last.req.q)}
       ELSE Stored

\* The calendar day of instant t in the zone the variant's date filter
\* uses: America/Los_Angeles in the PostgreSQL variant, UTC in the file
\* variant.
ZoneDay(t) == IF variant = "pg" THEN LocalDay(t) ELSE UtcDay(t)

\* C10 as stated: a date string selects exactly the records whose
\* created_at falls on that day of the fixed zone, and a string that is no
\* day selects nothing, without an error.
C10_DateFilterExact ==
  (ListServed /\ Unpaged(last.req) /\ ~Truthy(last.req.q)
     /\ Truthy(last.req.date))
  => /\ last.res.status = 200
     /\ RowSet(last.res.rows) =
          {a \in Stored : DateStr(ZoneDay(a.created_at)) = last.req.date}

(***************************************************************************)
(* The requests of SpecPage: records whose fields hold markup characters,  *)
(* and pages asked for with search terms that occur in them.               *)
(***************************************************************************)
PageBodies ==
  { [content |-> <<"a","&">>, category |-> Undefined, details |-> <<"<">>],
    [content |-> <<"<","B",">">>, category |-> <<"\"">>, details |-> Undefined] }

PageRequests ==
  { [WithCookie("POST /api/activities") EXCEPT
       !.content = b.content, !.category = b.category, !.details = b.details] :
      b \in PageBodies }
  \cup
  { PageReq(q, Undefined) :
      q \in { Undefined, <<"a">>, <<"&">>, <<"b">>, <<"<">>, <<"\"">> } }
  \cup
  { PageReq(<<"b">>, <<"\"">>),
    WithCookie("GET /api/activities"),
    [WithCookie("GET /api/activities/:id") EXCEPT !.id = <<"1">>],
    [Req("GET /auth", Undefined, Undefined) EXCEPT !.token = Secret] }

NextPage ==
  \/ Tick(MaxTicks)
  \/ Serve(PageRequests)

SpecPage == Init /\ [][NextPage]_vars

(***************************************************************************)
(* Properties of the rendered page, checked under SpecPage.                *)
(***************************************************************************)
Entities ==
  { <<"&","a","m","p",";">>, <<"&","l","t",";">>, <<"&","g","t",";">>,
    <<"&","q","u","o","t",";">> }

StartsAt(h, i, t) == i + Len(t) - 1 <= Len(h) /\ SubSeq(h, i, i + Len(t) - 1) = t

EndsAt(h, i, t) == i - Len(t) + 1 >= 1 /\ SubSeq(h, i - Len(t) + 1, i) = t

\* In the piece h of HTML every & begins one of the four entities, every <
\* and > belongs to a <mark> or </mark> tag, and there is no ".
WellEscaped(h) ==
  \A i \in 1..Len(h) :
    /\ h[i] # "\""
    /\ h[i] = "&" => \E e \in Entities : StartsAt(h, i, e)
    /\ h[i] = "<" => StartsAt(h, i, MarkOpen) \/ StartsAt(h, i, MarkClose)
    /\ h[i] = ">" => EndsAt(h, i, MarkOpen) \/ EndsAt(h, i, MarkClose)

\* C11 as stated: every piece of a served page that comes from a stored
\* field or from the search term holds no bare <, >, & or ", highlighting
\* included.
C11_PageEscaped ==
  (last.req.route = "GET /" /\ last.res.status = 200)
  => \A i \in 1..Len(last.res.html) : WellEscaped(last.res.html[i])

(***************************************************************************)
(* Properties of the fetch by id, checked under SpecStore.                 *)
(***************************************************************************)
\* The id text s names record a (ids below ten).
Identifies(s, a) == a.id \in 0..9 /\ s = <<Digits[a.id + 1]>>

\* C12 as stated: an authorized fetch by id returns the record with that id
\* when there is one, and 404 for every id, numeric or not, that names no
\* stored record.
C12_FetchOrNotFound ==
  (last.req.route = "GET /api/activities/:id" /\ CarriesCookie /\ ~last.fault)
  => IF \E a \in Stored : Identifies(last.req.id, a)
     THEN /\ last.res.status = 200
          /\ Len(last.res.rows) = 1
          /\ Identifies(last.req.id, last.res.rows[1])
          /\ last.res.rows[1] \in Stored
     ELSE last.res.status = 404

(***************************************************************************)
(* Properties of storage failures and of the record set, checked under     *)
(* SpecStore.                                                              *)
(***************************************************************************)
\* C13 as stated: a request during which the storage backend fails is
\* answered 500 with the message "Database error", and a create that fails
\* this way leaves no record behind for a later list or fetch.
C13_StorageFailureIsGeneric ==
  [][ last'.fault => /\ last'.res.status = 500
                     /\ last'.res.error = "Database error"
                     /\ last'.res.rows = <<>>
                     /\ UNCHANGED RecordSet ]_vars

\* The ids of the records of a sequence are pairwise different.
UniqueIds(rows) ==
  \A i, j \in 1..Len(rows) : i # j => rows[i].id # rows[j].id

\* C15 as stated: no two stored records have the same id, however close
\* together they were created.
C15_IdsUnique ==
  /\ UniqueIds(activity_logs)
  /\ UniqueIds(activities)
  /\ UniqueIds(DATA_FILE)

\* The rows of before are all still in after, in the same order, and after
\* holds exactly one row more.
OneAdded(before, after) ==
  /\ Len(after) = Len(before) + 1
  /\ \/ SubSeq(after, 1, Len(before)) = before
     \/ SubSeq(after, 2, Len(after)) = before

\* C16 as stated: the record set changes only by a successful authorized
\* POST /api/activities, which adds exactly one record and leaves every
\* other record as it was; every other request leaves the record set
\* unchanged.
C16_AppendOnly ==
  [][ \/ UNCHANGED <<activity_logs, activities, DATA_FILE>>
      \/ /\ last'.req.route = "POST /api/activities"
         /\ PostAuth(last'.req)
         /\ last'.res.status = 200
         /\ IF variant = "pg"
            THEN OneAdded(activity_logs, activity_logs')
            ELSE OneAdded(activities, activities') /\ DATA_FILE' = activities' ]_vars

(***************************************************************************)
(* Startup.  SpecStartup begins before the storage backend is initialized: *)
(* the PostgreSQL variant runs initDb() and listens in its then-branch,    *)
(* the file variant loads the data file and listens unconditionally.       *)
(***************************************************************************)
Starting == [phase |-> "starting", initFailed |-> FALSE, exitCode |-> 0]

\* A record a former run of the file variant has persisted.
Persisted ==
  [id |-> 7, content |-> <<"A","b">>, category |-> General,
   details |-> Undefined, created_at |-> 7]

InitStartup ==
  /\ proc = Starting
  /\ inflight = <<>>
  /\ variant \in {"pg", "file"}
  /\ APP_TOKEN \in {Undefined, Secret}
  /\ activity_logs = <<>>
  /\ id_seq = 1
  /\ activities = <<>>
  /\ DATA_FILE \in {<<>>, <<Persisted>>}
  /\ now = 15
  /\ last = [req |-> NoReq, res |-> Res(0, "", <<>>), fault |-> FALSE]

\* initDb().then(() => app.listen(...)).catch(err => process.exit(1))
StartPg ==
  /\ variant = "pg"
  /\ proc.phase = "starting"
  /\ \E fault \in BOOLEAN :
       proc' = IF fault
               THEN [phase |-> "exited", initFailed |-> TRUE, exitCode |-> 1]
               ELSE Listening
  /\ UNCHANGED <<variant, APP_TOKEN, activity_logs, id_seq, activities,
                 DATA_FILE, now, last, inflight>>

\* loadActivities(): the parsed file, or [] when reading or parsing throws.
loadActivities(fault) == IF fault THEN <<>> ELSE DATA_FILE

\* let activities = loadActivities(); ... app.listen(PORT)
StartFile ==
  /\ variant = "file"
  /\ proc.phase = "starting"
  /\ \E fault \in BOOLEAN :
       /\ activities' = loadActivities(fault)
       /\ proc' = [Listening EXCEPT !.initFailed = fault]
  /\ UNCHANGED <<variant, APP_TOKEN, activity_logs, id_seq, DATA_FILE, now,
                 last, inflight>>

StartupRequests ==
  { [WithCookie("POST /api/activities") EXCEPT !.content = <<"c","_">>],
    WithCookie("GET /"),
    WithCookie("GET /api/activities"),
    [WithCookie("GET /api/activities/:id") EXCEPT !.id = <<"1">>],
    [Req("GET /auth", Undefined, Undefined) EXCEPT !.token = Secret] }

NextStartup ==
  \/ StartPg
  \/ StartFile
  \/ Tick(MaxTicks)
  \/ Serve(StartupRequests)

SpecStartup == InitStartup /\ [][NextStartup]_vars

\* C14 as stated: when the storage backend cannot be initialized the
\* process has exited with a non-zero status and has served no request;
\* a request is served only after initialization has succeeded.
C14_StartupFailureIsFatal ==
  /\ proc.initFailed => (proc.phase = "exited" /\ proc.exitCode # 0
                          /\ last.req = NoReq)
  /\ last.req # NoReq => (proc.phase = "listening" /\ ~proc.initFailed)

(***************************************************************************)
(* Calls in flight.  In SpecCalls several POST /api/activities calls have  *)
(* arrived before any is answered, and they complete in any order: the     *)
(* file variant's handler runs to its end in one turn of the event loop,   *)
(* the PostgreSQL variant's INSERT is one statement of the database.       *)
(***************************************************************************)
Call(req) == [req |-> req, stage |-> "arrived", res |-> Res(0, "", <<>>)]

\* A call arrives at the listening process.
Arrive(req) ==
  /\ proc.phase = "listening"
  /\ Len(inflight) < MaxCalls
  /\ inflight' = Append(inflight, Call(req))
  /\ UNCHANGED <<variant, APP_TOKEN, activity_logs, id_seq, activities,
                 DATA_FILE, now, last, proc>>

\* Call i is answered with the response its handler has just sent.
Answer(i) ==
  inflight' = [inflight EXCEPT ![i].stage = "answered", ![i].res = last'.res]

CompletePg ==
  /\ variant = "pg"
  /\ \E i \in 1..Len(inflight) :
       /\ inflight[i].stage = "arrived"
       /\ PostActivitiesPg(inflight[i].req)
       /\ Answer(i)
  /\ UNCHANGED proc

CompleteFile ==
  /\ variant = "file"
  /\ \E i \in 1..Len(inflight) :
       /\ inflight[i].stage = "arrived"
       /\ PostActivitiesFile(inflight[i].req)
       /\ Answer(i)
  /\ UNCHANGED proc

CallRequests ==
  { [WithCookie("POST /api/activities") EXCEPT !.content = <<"A","b">>],
    [Req("POST /api/activities", Undefined, Bearer \o Secret) EXCEPT
       !.content = <<"c","_">>, !.category = <<"w">>],
    [WithCookie("POST /api/activities") EXCEPT !.content = <<>>] }

NextCalls ==
  \/ Tick(MaxTicks)
  \/ \E req \in CallRequests : Arrive(req)
  \/ CompletePg
  \/ CompleteFile

SpecCalls == Init /\ [][NextCalls]_vars

\* The calls that were answered successfully.
Acked == { i \in 1..Len(inflight) :
             inflight[i].stage = "answered" /\ inflight[i].res.status = 200 }

AllAnswered ==
  inflight # <<>> /\ \A i \in 1..Len(inflight) : inflight[i].stage = "answered"

\* Each acknowledged call has a record of its own in rows: the record its
\* response carried.
EachAckedIn(rows) ==
  \E f \in [Acked -> 1..Len(rows)] :
     /\ \A i, j \in Acked : i # j => f[i] # f[j]
     /\ \A i \in Acked : rows[f[i]] = inflight[i].res.rows[1]

\* C17: once all the calls in flight have been answered, the store, in
\* memory and as persisted, holds one record for each call that was
\* answered successfully, whatever the order they completed in.
C17_NoAcknowledgedRecordLost ==
  AllAnswered =>
    IF variant = "pg" THEN EachAckedIn(activity_logs)
    ELSE EachAckedIn(activities) /\ EachAckedIn(DATA_FILE)

C17_Witness ==
  /\ AllAnswered
  /\ Acked = {1, 2}
  /\ inflight[1].req # inflight[2].req
  /\ IF variant = "pg"
     THEN inflight[1].res.rows[1].id > inflight[2].res.rows[1].id
     ELSE DATA_FILE[1] = inflight[1].res.rows[1]

(***************************************************************************)
(* The cookie round trip.  In SpecCookie the secret may hold the           *)
(* characters the Cookie header gives a meaning to; the requests send back *)
(* the cookie GET /auth issues for each secret.                            *)
(***************************************************************************)
CookieSecrets ==
  { Secret, <<"k","=","9">>, <<"k",";","9">>, <<"k"," ","9">> }

\* The Cookie header a client sends for a Set-Cookie header it received:
\* the name=value pair, which ends at the first ";".
SentBack(setCookie) == Trim(Split(setCookie, ";")[1])

IssuedCookies == { SentBack(AppTokenEq \o t \o CookieAttrs) : t \in CookieSecrets }

InitCookie ==
  /\ proc = Listening
  /\ inflight = <<>>
  /\ variant \in {"pg", "file"}
  /\ APP_TOKEN \in CookieSecrets
  /\ activity_logs = <<>>
  /\ id_seq = 1
  /\ activities = <<>>
  /\ DATA_FILE = <<>>
  /\ now = 15
  /\ last = [req |-> NoReq, res |-> Res(0, "", <<>>), fault |-> FALSE]

CookieRequests ==
  { [Req("GET /auth", Undefined, Undefined) EXCEPT !.token = t] :
      t \in CookieSecrets }
  \cup
  { [Req(r, c, Undefined) EXCEPT !.id = <<"1">>, !.content = <<"a">>] :
      r \in GuardedRoutes, c \in IssuedCookies }

NextCookie ==
  \/ Tick(MaxTicks)
  \/ Serve(CookieRequests)

SpecCookie == InitCookie /\ [][NextCookie]_vars

\* The step serves a guarded route to a request that sends back the cookie
\* the preceding GET /auth has issued for the secret.
CookieCameBack ==
  /\ last.req.route = "GET /auth"
  /\ last.req.token = APP_TOKEN
  /\ last.res.status = 302
  /\ last'.req.route \in GuardedRoutes
  /\ last'.req.cookie = SentBack(last.res.setCookie)

\* C18 as stated: whatever characters the secret holds, a request that
\* sends back the cookie GET /auth issued for it is authorized on every
\* guarded route.
C18_CookieRoundTrip ==
  [][ CookieCameBack => last'.res.status # 401 ]_vars

=============================================================================
